---- MODULE Spec2Model ----
(***************************************************************************)
(* Verification-and-measurement engine of opsg-unit-test-generation.       *)
(*                                                                         *)
(* Spec     : VerificationPhase.run followed by EvaluationPhase.run over a *)
(*            refinement ledger (src/src/pfc3/phases/verification.py and   *)
(*            evaluation.py), one step per external tool invocation.       *)
(* SpecCov  : EvaluationPhase._parse_jacoco applied to bounded reports.    *)
(* SpecPit  : EvaluationPhase._parse_pit and the script's                  *)
(*            measure_mutation_score_pit applied to bounded reports.       *)
(* SpecStats: AnalysisPhase._calculate_statistics on bounded columns.      *)
(* SpecSut  : find_sut_file of both static_analysis modules on bounded     *)
(*            project directories.                                         *)
(* SpecCtx  : ContextExtractor.extract_context and its two call sites.     *)
(* SpecRun  : PipelineRunner.run_full_pipeline of                          *)
(*            scripts/pipeline/run_pipeline.py, started any number of      *)
(*            times over the marker files that exist.                      *)
(* SpecScript: the RQ1 loop, the statistics and the save step of main of   *)
(*            scripts/pipeline/phase4_evaluation.py.                       *)
(*                                                                         *)
(* External tools (javac, the JUnit runner, the repair adapter, JaCoCo,    *)
(* PIT) are inputs: every step draws the tool's outcome from the outcomes  *)
(* the tool can produce.  runner.run_javac / run_java / run_pitest pass a  *)
(* timeout to subprocess.run, which raises TimeoutExpired when it expires. *)
(***************************************************************************)
EXTENDS Integers, Sequences, FiniteSets, TLC

\* ------------------------------------------------------------------ bounds
\* number of entries of the refinement ledger
MaxCases == 2
\* number of <class> elements of an enumerated JaCoCo report
MaxNodes == 2

\* longest enumerated sequence of <mutation> elements of a mutations.xml
MaxMutants == 4

\* most rows of the data frame handed to _calculate_statistics
MaxRows == 3

\* entries of the verification ledger that phase4_evaluation.py reads
MaxEntries == 3

\* most method declarations of an enumerated SUT source file
MaxMethods == 2

Entries == 1..MaxEntries

\* ------------------------------------------------------- program constants
\* _repair_test(..., max_attempts: int = 3)
max_attempts == 3

\* len(self.phases) of PipelineRunner
NumPhases == 5

Cases == 1..MaxCases

\* ------------------------------------------------------------ source files
\* A source text is abstracted to its identity (0 = the file as the
\* refinement phase left it, k = the adapter's k-th response) and to whether
\* javac accepts it, which is a fixed property of the text that becomes
\* known the first time the text is compiled.
Content(id, ok) == [id |-> id, ok |-> ok]

InitialContent == Content(0, "unknown")

\* the files next to an entry's refined test that _verify_test hands to
\* javac: the scaffolding of the refined test (line 90), the original test
\* and its scaffolding (lines 111-112)
OtherFiles == {"refined_scaffolding", "original", "original_scaffolding"}

\* clean_java_code: extracts the Java text from the adapter's answer; the
\* identity of the answer is kept, the text written is the cleaned answer.
clean_java_code(answer) == Content(answer, "unknown")

\* ------------------------------------------------------------ tool outcomes
\* runner.run_javac on a text, when it returns: returncode 0 is possible
\* only if the text is not known to be rejected, returncode 1 only if it is
\* not known to be accepted.  (When the timeout expires the call raises
\* instead: actions VTimeout and ETimeout.)
JavacReturncodes(src) ==
    (IF src.ok \in {"unknown", "yes"} THEN {0} ELSE {})
      \cup (IF src.ok \in {"unknown", "no"} THEN {1} ELSE {})

\* the text after javac has judged it
Judged(src, returncode) ==
    Content(src.id, IF returncode = 0 THEN "yes" ELSE "no")

\* The JUnit runner's process: "success" (zero failures, exit 0, banner
\* "OK (n tests)"), "failures" (exit 1, banner "FAILURES!!!"), "error" (the
\* JVM or the runner failed before any banner, non-zero exit).  The test and
\* the SUT write to the same stdout; noise is what they wrote.
RunKinds == {"success", "failures", "error"}

Noise == {<<>>, <<"OK (">>}

Banner(kind) ==
    IF kind = "success" THEN <<"Time:", "OK (">>
    ELSE IF kind = "failures" THEN <<"Time:", "FAILURES!!!", "Tests run:">>
    ELSE <<>>

\* CompletedProcess of runner.run_java
RunResult(kind, noise) ==
    [kind |-> kind,
     returncode |-> IF kind = "success" THEN 0 ELSE 1,
     failures |-> IF kind = "failures" THEN 1 ELSE 0,
     stdout |-> noise \o Banner(kind)]

RunResults == {RunResult(k, n) : k \in RunKinds, n \in Noise}

\* "OK (" in res.stdout
Passed(res) == \E i \in 1..Len(res.stdout) : res.stdout[i] = "OK ("

\* ------------------------------------------------------------ oracle check
\* faulty variant of the oracle check: the two mixed outcomes are taken for
\* each other's
OracleCheckMixedSwapped(orig_passed, ref_passed) ==
    IF orig_passed /\ ref_passed THEN <<TRUE, "Preserved (Pass)">>
    ELSE IF ~orig_passed /\ ~ref_passed THEN <<TRUE, "Preserved (Fail)">>
    ELSE IF ~orig_passed /\ ref_passed THEN <<FALSE, "Regression">>
    ELSE <<FALSE, "Fix (Unexpected)">>

\* _verify_test, step 4
OracleCheck(orig_passed, ref_passed) ==
    IF orig_passed /\ ref_passed THEN <<TRUE, "Preserved (Pass)">>
    ELSE IF ~orig_passed /\ ~ref_passed THEN <<TRUE, "Preserved (Fail)">>
    ELSE IF orig_passed /\ ~ref_passed THEN <<FALSE, "Regression">>
    ELSE <<FALSE, "Fix (Unexpected)">>

\* ------------------------------------------------------------- class names
\* A name is a sequence of characters.
Replace(s, a, b) == [k \in 1..Len(s) |-> IF s[k] = a THEN b ELSE s[k]]

StartsWith(s, p) == Len(p) <= Len(s) /\ SubSeq(s, 1, Len(p)) = p

\* fully-qualified SUT class names handed to _parse_jacoco
TargetClasses == {<<"a", ".", "B">>, <<"B">>}

\* binary names of the <class> elements of a report
ClassNames ==
    {<<"a", "/", "B">>, <<"a", "/", "B", "$", "1">>,
     <<"a", "/", "B", "x">>, <<"B">>}

\* -------------------------------------------------------------- percentages
\* A percentage covered / total * 100 is kept exactly, as num / den.
Pct(num, den) == [num |-> num, den |-> den]

PctZero == Pct(0, 1)

PctEq(p, q) == p.num * q.den = q.num * p.den

\* faulty variant of the test line_cov > 0: every percentage counts as
\* positive, so the LINE value is always taken
PctPositiveAlways(p) == TRUE

PctPositive(p) == p.num > 0

\* ------------------------------------------------------------ _parse_jacoco
CounterTypes == {"LINE", "BRANCH", "INSTRUCTION", "METHOD"}

\* (covered, missed) attribute pairs of the enumerated counter elements
CountPairs == {<<0, 0>>, <<0, 2>>, <<8, 2>>, <<1, 0>>}

Counter(t, cov, mis) == [type |-> t, covered |-> cov, missed |-> mis]

Counters == {Counter(t, p[1], p[2]) : t \in CounterTypes, p \in CountPairs}

\* A <class> element: its name and its <counter> children.  A class with
\* several counters is enumerated as consecutive elements of the same name
\* (the parser adds up every matching element, so the sums are the same).
ClassNode(n, cs) == [name |-> n, counters |-> cs]

ClassNodes ==
    {ClassNode(n, cs) : n \in ClassNames,
                        cs \in {<<>>} \cup {<<c>> : c \in Counters}}

RECURSIVE SeqsUpTo(_, _)
SeqsUpTo(S, n) ==
    IF n = 0 THEN {<<>>}
    ELSE LET shorter == SeqsUpTo(S, n - 1)
         IN shorter \cup {Append(q, x) : q \in {r \in shorter : Len(r) = n - 1}, x \in S}

\* a report file: its sequence of <class> elements, or a file ET.parse
\* rejects (wellformed = FALSE)
Report(wellformed, classes) == [wellformed |-> wellformed, classes |-> classes]

Malformed == Report(FALSE, <<>>)

Reports == {Report(TRUE, cs) : cs \in SeqsUpTo(ClassNodes, MaxNodes)} \cup {Malformed}

ZeroCount == [covered |-> 0, missed |-> 0]

\* counters = {"LINE": ..., "BRANCH": ...}; a type not yet in the dict reads
\* as zero through counters.get(type, zero)
InitialCounters == [t \in CounterTypes |-> ZeroCount]

\* counters[type]["covered"] += ...; counters[type]["missed"] += ...
AddCounter(counters, c) ==
    [counters EXCEPT ![c.type] = [covered |-> @.covered + c.covered,
                                  missed |-> @.missed + c.missed]]

\* for counter in cls_node.findall("counter")
RECURSIVE AddCounters(_, _)
AddCounters(counters, cs) ==
    IF cs = <<>> THEN counters
    ELSE AddCounters(AddCounter(counters, Head(cs)), Tail(cs))

\* faulty variant of the class match: any name that starts with the target
\* path is taken for an inner class
ClassMatchesAnyPrefix(name, target_path) ==
    name = target_path \/ StartsWith(name, target_path)

\* name == target_path or name.startswith(target_path + "$")
ClassMatches(name, target_path) ==
    name = target_path \/ StartsWith(name, Append(target_path, "$"))

\* for cls_node in root.findall(".//class")
RECURSIVE ScanClasses(_, _, _)
ScanClasses(nodes, target_path, acc) ==
    IF nodes = <<>> THEN acc
    ELSE LET n == Head(nodes)
             next == IF ClassMatches(n.name, target_path)
                     THEN [found |-> TRUE,
                           counters |-> AddCounters(acc.counters, n.counters)]
                     ELSE acc
         IN ScanClasses(Tail(nodes), target_path, next)

\* def calc(c)
calc(c) ==
    LET total == c.covered + c.missed
    IN IF total > 0 THEN Pct(c.covered * 100, total) ELSE PctZero

\* the dict _parse_jacoco returns; keys = FALSE is the empty dict of the
\* except branch
CovResult(keys, line, branch, instr, method) ==
    [keys |-> keys, line_coverage |-> line, branch_coverage |-> branch,
     instruction_coverage |-> instr, method_coverage |-> method]

EmptyCov == CovResult(FALSE, PctZero, PctZero, PctZero, PctZero)

_parse_jacoco(report, target_class) ==
    IF ~report.wellformed THEN EmptyCov
    ELSE LET target_path == Replace(target_class, ".", "/")
             acc == ScanClasses(report.classes, target_path,
                                [found |-> FALSE, counters |-> InitialCounters])
             line_cov == calc(acc.counters["LINE"])
             instr_cov == calc(acc.counters["INSTRUCTION"])
             final_cov == IF PctPositive(line_cov) THEN line_cov ELSE instr_cov
         IN CovResult(TRUE, final_cov, calc(acc.counters["BRANCH"]),
                      instr_cov, calc(acc.counters["METHOD"]))

\* --------------------------------------------------------------- _parse_pit
MutationStatuses == {"KILLED", "SURVIVED", "NO_COVERAGE"}

RECURSIVE CountKilled(_)
CountKilled(mutations) ==
    IF mutations = <<>> THEN 0
    ELSE (IF Head(mutations) = "KILLED" THEN 1 ELSE 0) + CountKilled(Tail(mutations))

\* a mutations.xml file: the status attributes of its <mutation> elements
MutationReport(wellformed, statuses) == [wellformed |-> wellformed, mutations |-> statuses]

_parse_pit(xml) ==
    IF ~xml.wellformed THEN PctZero
    ELSE LET total == Len(xml.mutations)
             killed == CountKilled(xml.mutations)
         IN IF total > 0 THEN Pct(killed * 100, total) ELSE PctZero

\* ---------------------- phase4_evaluation.py: measure_mutation_score_pit
\* the number of <mutation> elements with a given status
RECURSIVE CountStatus(_, _)
CountStatus(mutations, status) ==
    IF mutations = <<>> THEN 0
    ELSE (IF Head(mutations) = status THEN 1 ELSE 0)
         + CountStatus(Tail(mutations), status)

\* round(x, 2): the nearest multiple of 1/100, a tie going to the even one
Round2(p) ==
    LET scaled == p.num * 100
        q == scaled \div p.den
        r == scaled % p.den
    IN Pct(IF 2 * r > p.den \/ (2 * r = p.den /\ q % 2 = 1) THEN q + 1 ELSE q, 100)

\* the dict of the except branches and of a missing report
MutationError ==
    [mutation_score |-> PctZero, mutants_killed |-> 0, total_mutants |-> 0,
     line_coverage |-> PctZero, error |-> "error"]

\* lines 336-380 for the mutations.xml PIT left behind (a report has no
\* <line-coverage> element, so line_cov stays 0.0); ET.parse raising lands
\* in `except Exception`
measure_mutation_score_pit(xml) ==
    IF ~xml.wellformed THEN MutationError
    ELSE LET total_mutants == Len(xml.mutations)
             killed == CountStatus(xml.mutations, "KILLED")
             survived == CountStatus(xml.mutations, "SURVIVED")
             no_coverage == CountStatus(xml.mutations, "NO_COVERAGE")
             testable_mutants == total_mutants - no_coverage
             mutation_score == IF testable_mutants > 0
                               THEN Pct(killed * 100, testable_mutants)
                               ELSE PctZero
         IN [mutation_score |-> Round2(mutation_score),
             mutants_killed |-> killed,
             mutants_survived |-> survived,
             mutants_no_coverage |-> no_coverage,
             total_mutants |-> total_mutants,
             testable_mutants |-> testable_mutants,
             line_coverage |-> Round2(PctZero)]

\* the report of seven killed, two surviving and one uncovered mutant
ExampleMutations ==
    <<"KILLED", "KILLED", "KILLED", "KILLED", "KILLED", "KILLED", "KILLED",
      "SURVIVED", "SURVIVED", "NO_COVERAGE">>

\* mutations.xml files handed to the two parsers
MutationReports ==
    {MutationReport(TRUE, ms) : ms \in SeqsUpTo(MutationStatuses, MaxMutants)}
    \cup {MutationReport(TRUE, ExampleMutations), MutationReport(FALSE, <<>>)}

\* ------------------------------------------- analysis.py: _vargha_delaney
\* metric values of the rows of the data frame
MetricValues == {10, 15, 20, 25, 30, 35}

\* a fraction num / den, as the floats of the statistics are kept
Frac(num, den) == [num |-> num, den |-> den]

RECURSIVE SumSeq(_)
SumSeq(q) == IF q = <<>> THEN 0 ELSE Head(q) + SumSeq(Tail(q))

\* twice stats.rankdata(values): the average rank of each element, a
\* value's rank being the number of smaller elements plus the middle
\* position among the elements equal to it
rankdata2(values) ==
    [k \in 1..Len(values) |->
        2 * Cardinality({j \in 1..Len(values) : values[j] < values[k]})
        + Cardinality({j \in 1..Len(values) : values[j] = values[k]}) + 1]

\* return (r1 / m - (m + 1) / 2) / n, with r1 = sum(r[:m]) the rank sum
\* of x within x + y
_vargha_delaney(xs, ys) ==
    LET m == Len(xs)
        n == Len(ys)
        r2 == rankdata2(xs \o ys)
        r1_2 == SumSeq(SubSeq(r2, 1, m))
    IN Frac(r1_2 - m * (m + 1), 2 * m * n)

\* (df[valid_col] - df[base_col]).mean()
MeanDiff(base, valid) ==
    Frac(SumSeq([k \in 1..Len(base) |-> valid[k] - base[k]]), Len(base))

\* ------------------------------------------ static_analysis.find_sut_file
\* A path is the sequence of its segments below cfg.sf110_home /
\* project_name.
\* the packages and the simple name of a class name: split(".")
NameParts(class_name) == SelectSeq(class_name, LAMBDA c : c # ".")

SimpleName(class_name) == NameParts(class_name)[Len(NameParts(class_name))]

\* name + ".java"
JavaFile(name) == IF name = "B" THEN "B.java" ELSE "other.java"

\* rel_path = class_name.replace(".", "/") + ".java"
RelPath(class_name) ==
    LET parts == NameParts(class_name)
    IN SubSeq(parts, 1, Len(parts) - 1) \o <<JavaFile(SimpleName(class_name))>>

\* the three source roots, in the order of the list
SourceRoots == <<(<<"src", "main", "java">>), <<"src">>, <<"source">>>>

\* project names: with and without the "<number>_" prefix
ProjectNames == {"1_tullibee", "tullibee"}

\* project_name.split('_', 1)[1] + ".jar"
JarName(project_name) == IF project_name = "1_tullibee" THEN "tullibee.jar" ELSE "none"

HasUnderscore(project_name) == project_name = "1_tullibee"

\* files a project directory may hold
ProjectFiles ==
    {<<"src", "main", "java", "a", "B.java">>, <<"src", "a", "B.java">>,
     <<"source", "a", "B.java">>, <<"src", "B.java">>, <<"lib", "B.java">>,
     <<"tullibee.jar">>}

\* the value returned when nothing is found
NotFound == <<"None">>

\* project_dir.rglob(simple name + ".java"): every file of that name
RGlob(files, file_name) == {f \in files : f[Len(f)] = file_name}

\* the first root whose candidate exists, 0 if there is none
FirstRoot(files, rel_path) ==
    IF \E k \in 1..Len(SourceRoots) : (SourceRoots[k] \o rel_path) \in files
    THEN CHOOSE k \in 1..Len(SourceRoots) :
             /\ (SourceRoots[k] \o rel_path) \in files
             /\ \A j \in 1..(k - 1) : (SourceRoots[j] \o rel_path) \notin files
    ELSE 0

\* the paths pfc3/utils/static_analysis.find_sut_file may return: the first
\* existing candidate, else found[0] of the recursive search (whose order
\* the file system decides), else None
find_sut_file_pfc3(class_name, project_name, project) ==
    LET rel_path == RelPath(class_name)
        k == FirstRoot(project.files, rel_path)
        found == RGlob(project.files, JavaFile(SimpleName(class_name)))
    IN IF k # 0 THEN {SourceRoots[k] \o rel_path}
       ELSE IF project.exists /\ found # {} THEN found
       ELSE {NotFound}

\* the paths gspo_utg/utils/static_analysis.find_sut_file may return: as
\* above, and before None the jar named after the project, if the project
\* name has an underscore
find_sut_file(class_name, project_name, project) ==
    LET rel_path == RelPath(class_name)
        k == FirstRoot(project.files, rel_path)
        found == RGlob(project.files, JavaFile(SimpleName(class_name)))
    IN IF k # 0 THEN {SourceRoots[k] \o rel_path}
       ELSE IF project.exists /\ found # {} THEN found
       ELSE IF HasUnderscore(project_name)
               /\ <<JarName(project_name)>> \in project.files
       THEN {<<JarName(project_name)>>}
       ELSE {NotFound}

\* the project directories handed to find_sut_file: a directory with some of
\* the files, or no directory
ProjectDirs ==
    {[exists |-> TRUE, files |-> fs] : fs \in SUBSET ProjectFiles}
    \cup {[exists |-> FALSE, files |-> {}]}

\* ------------------------------- static_analysis.ContextExtractor (pfc3)
\* method declarations of the SUT class; return_type "None" is a void method
MethodDecls ==
    {[name |-> "m", private |-> p, return_type |-> r] :
        p \in BOOLEAN, r \in {"None", "int"}}

\* a path handed to extract_context: whether the file exists, whether
\* javalang parses it, and what the parse tree holds (one class B without
\* fields)
SourceFile(exists, parses, package, methods) ==
    [exists |-> exists, parses |-> parses, package |-> package, methods |-> methods]

SourceFiles ==
    {SourceFile(FALSE, FALSE, "", <<>>), SourceFile(TRUE, FALSE, "", <<>>)}
    \cup {SourceFile(TRUE, TRUE, p, ms) :
              p \in {"", "a"}, ms \in SeqsUpTo(MethodDecls, MaxMethods)}

\* the signature lines of the methods that are not private; a line is the
\* tuple of its words
RECURSIVE Signatures(_)
Signatures(methods) ==
    IF methods = <<>> THEN <<>>
    ELSE LET method == Head(methods)
             return_type == IF method.return_type # "None"
                            THEN method.return_type ELSE "void"
         IN (IF method.private THEN <<>>
             ELSE <<(<<return_type, method.name, "()">>)>>)
            \o Signatures(Tail(methods))

\* def extract_context(self, java_file): the lines of the returned string
extract_context(java_file) ==
    IF ~java_file.exists
    THEN <<(<<"Context not available (file not found).">>)>>
    ELSE IF ~java_file.parses
    THEN <<(<<"Error extracting context">>)>>
    ELSE (IF java_file.package # ""
          THEN <<(<<"package", java_file.package>>)>> ELSE <<>>)
         \o <<(<<"class", "B", "{">>)>>
         \o Signatures(java_file.methods)
         \o <<(<<"}">>)>>

\* a call extractor.extract_context(*args): the method takes one argument
\* besides self, any other number raises TypeError before the body runs
CallExtractContext(args) ==
    IF Len(args) = 1
    THEN [raised |-> FALSE, value |-> extract_context(args[1])]
    ELSE [raised |-> TRUE, value |-> <<>>]

\* what find_sut_file handed to a call site: a path, or None
SutPaths ==
    {[path |-> TRUE, file |-> f] : f \in SourceFiles}
    \cup {[path |-> FALSE, file |-> SourceFile(FALSE, FALSE, "", <<>>)]}

\* ------------------------------------------------------------------- state
VARIABLES
    refined_results,   \* T_refined_results.json: the refinement ledger
    projects,          \* loader.get_project per ledger entry: "ok", "nojars", "missing"
    refined_file,      \* text of each entry's refined test file on disk
    other_files,       \* text of each entry's scaffolding files and original test file
    pc,                \* position of the pipeline
    i,                 \* index of the worklist loop of the running phase
    valid_results,     \* VerificationPhase.run: valid_results
    T_valid,           \* generated_tests/validated/T_valid_results.json
    validated,         \* entries whose refined file was copied to validated/
    vt,                \* locals of the current / last _verify_test call
    rp,                \* locals of the current / last _repair_test call
    metrics,           \* EvaluationPhase.run: metrics
    final_evaluation,  \* evaluation_results/final_evaluation.json
    em,                \* locals of the current / last _measure_metrics call
    scratch,           \* the temporary directories that exist
    report,            \* SpecCov: the report file handed to _parse_jacoco
    target_class,      \* SpecCov: the class name handed to _parse_jacoco
    cov,               \* SpecCov: the dict _parse_jacoco returned
    cpc,               \* SpecCov: "input" before the call, "parsed" after
    s_pc,              \* SpecScript: position of main of phase4_evaluation.py
    s_i,               \* SpecScript: index of the loop over valid_success
    baseline_metrics,  \* SpecScript: main's baseline_metrics
    valid_metrics,     \* SpecScript: main's valid_metrics
    s_final,           \* SpecScript: final_evaluation.json as main writes it
    s_stats,           \* SpecScript: the significance test compute_statistics applied
    s_measured,        \* SpecScript: the cov_ and mut_ dicts of the last test, if measured
    pit_xml,           \* SpecPit: the mutations.xml handed to the parsers
    score,             \* SpecPit: the float _parse_pit returned
    mut,               \* SpecPit: the dict measure_mutation_score_pit returned
    mpc,               \* SpecPit: "input", "parsed" (_parse_pit), "measured"
    df_baseline,       \* SpecStats: the column df[base_col]
    df_valid,          \* SpecStats: the column df[valid_col]
    stats_results,     \* SpecStats: the rows _calculate_statistics saves
    apc,               \* SpecStats: "input" before the call, "saved" after
    sut_class,         \* SpecSut: the class name handed to find_sut_file
    sut_project,       \* SpecSut: the project name handed to find_sut_file
    project_dir,       \* SpecSut: cfg.sf110_home / project_name on disk
    sut_path,          \* SpecSut: what the find_sut_file called returned
    fpc,               \* SpecSut: "input", then the package whose function ran
    ctx_sut,           \* SpecCtx: sut_path at the call site
    context,           \* SpecCtx: the context string of the call site
    xpc,               \* SpecCtx: "input", then where the call site went on
    markers,           \* SpecRun: ids of the phases whose output marker file exists
    args,              \* SpecRun: the parsed command line of run_pipeline.py
    start_phase,       \* SpecRun: run_full_pipeline's start_phase
    phase,             \* SpecRun: id of the phase the loop of run_full_pipeline is at
    skipped,           \* SpecRun: phases passed over with "ya completada"
    executed,          \* SpecRun: the run_phase calls of this invocation, in order
    exit_status,       \* SpecRun: what run_full_pipeline returned, -1 before
    rpc                \* SpecRun: "shell", "loop", "running", "exited"

pipeline_vars ==
    <<refined_results, projects, refined_file, other_files, pc, i,
      valid_results, T_valid, validated, vt, rp, metrics, final_evaluation,
      em, scratch>>

cov_vars == <<report, target_class, cov, cpc>>

script_vars ==
    <<s_pc, s_i, baseline_metrics, valid_metrics, s_final, s_stats, s_measured>>

pit_vars == <<pit_xml, score, mut, mpc>>

\* the variables of the calls of single functions
stats_vars == <<df_baseline, df_valid, stats_results, apc>>

sut_vars == <<sut_class, sut_project, project_dir, sut_path, fpc>>

ctx_vars == <<ctx_sut, context, xpc>>

\* the variables of the calls modelled further down
run_vars ==
    <<markers, args, start_phase, phase, skipped, executed, exit_status, rpc>>

aux_vars == <<ctx_vars, run_vars>>

fn_vars == <<cov_vars, pit_vars, stats_vars, sut_vars, aux_vars>>

vars == <<pipeline_vars, fn_vars, script_vars>>

\* a ledger file: absent until written
NoFile == [written |-> FALSE, records |-> <<>>]

File(records) == [written |-> TRUE, records |-> records]

NoRun == [kind |-> "none", returncode |-> -1, failures |-> 0, stdout |-> <<>>]

NoReturn == <<FALSE, "">>

\* locals of _verify_test on entry; they are kept after the return until
\* the loop of run moves on.  compiles counts the run_javac calls on
\* the candidate in the compile-and-repair part (lines 93, 213, 102);
\* orig_rc is the returncode of the call at line 112, which the code drops;
\* orig_class / ref_class is the source whose class was in out_dir when the
\* run at line 119 / 125 started.
FreshVerify ==
    [case |-> 0, res |-> -1, out_dir |-> "empty", orig_rc |-> -1,
     orig_res |-> NoRun, ref_res |-> NoRun,
     orig_passed |-> FALSE, ref_passed |-> FALSE,
     orig_class |-> "none", ref_class |-> "none",
     compiles |-> 0, ret |-> NoReturn]

\* locals of _repair_test before the call; requests / compiles count the
\* adapter.generate and run_javac calls of the call
FreshRepair ==
    [attempt |-> 0, code |-> InitialContent, error_log |-> -1,
     repaired_code |-> InitialContent,
     requests |-> 0, compiles |-> 0, result |-> "none"]

\* the metrics dict of _measure_metrics as initialised at lines 60-66
InitialMetrics ==
    [compilation_rate |-> 1, line_coverage |-> PctZero,
     branch_coverage |-> PctZero, mutation_score |-> PctZero]

FreshMeasure ==
    [case |-> 0, m |-> InitialMetrics, exec_exists |-> FALSE,
     xml_exists |-> FALSE, pit_xml_exists |-> FALSE, cov |-> EmptyCov,
     returned |-> FALSE]

\* to_verify = [r for r in refined_results if r.get('success')]
IsSuccess(r) == r.success

to_verify == SelectSeq(refined_results, IsSuccess)

\* verified = [r for r in valid_results if r.get('verified')]
IsVerified(r) == r.verified

verified == SelectSeq(T_valid.records, IsVerified)

Ledgers ==
    {[k \in Cases |-> [case |-> k, success |-> f[k]]] : f \in [Cases -> BOOLEAN]}

CovIdle ==
    /\ report = Malformed
    /\ target_class = <<"B">>
    /\ cov = EmptyCov
    /\ cpc = "off"

PitIdle ==
    /\ pit_xml = MutationReport(FALSE, <<>>)
    /\ score = PctZero
    /\ mut = MutationError
    /\ mpc = "off"

StatsIdle ==
    /\ df_baseline = <<>>
    /\ df_valid = <<>>
    /\ stats_results = <<>>
    /\ apc = "off"

SutIdle ==
    /\ sut_class = <<"B">>
    /\ sut_project = "tullibee"
    /\ project_dir = [exists |-> FALSE, files |-> {}]
    /\ sut_path = NotFound
    /\ fpc = "off"

CtxIdle ==
    /\ ctx_sut = [path |-> FALSE, file |-> SourceFile(FALSE, FALSE, "", <<>>)]
    /\ context = <<>>
    /\ xpc = "off"

\* run_pipeline.py is not running and no marker file exists
RunIdle ==
    /\ markers = {}
    /\ args = [resume |-> FALSE, phase |-> 0]
    /\ start_phase = 0
    /\ phase = 0
    /\ skipped = {}
    /\ executed = <<>>
    /\ exit_status = -1
    /\ rpc = "off"

AuxIdle == CtxIdle /\ RunIdle

FnIdle == CovIdle /\ PitIdle /\ StatsIdle /\ SutIdle /\ AuxIdle

\* no cov_ / mut_ dicts: the test's file was missing, it did not compile or
\* its class file was not found
NotMeasured == [side |-> "none"]

ScriptIdle ==
    /\ s_pc = "off"
    /\ s_i = 0
    /\ baseline_metrics = <<>>
    /\ valid_metrics = <<>>
    /\ s_final = NoFile
    /\ s_stats = "none"
    /\ s_measured = NotMeasured

\* the scaffolding and original files as the earlier phases left them
AsFound == [k \in Cases |-> [f \in OtherFiles |-> InitialContent]]

PipelineIdle ==
    /\ refined_results = <<>>
    /\ projects = [k \in Cases |-> "ok"]
    /\ refined_file = [k \in Cases |-> InitialContent]
    /\ other_files = AsFound
    /\ pc = "off"
    /\ i = 0
    /\ valid_results = <<>>
    /\ T_valid = NoFile
    /\ validated = {}
    /\ vt = FreshVerify
    /\ rp = FreshRepair
    /\ metrics = <<>>
    /\ final_evaluation = NoFile
    /\ em = FreshMeasure
    /\ scratch = {}

\* the state in which VerificationPhase.run enters its loop: the refinement
\* ledger exists and has been read
Init ==
    /\ refined_results \in Ledgers
    /\ projects \in [Cases -> {"ok", "nojars", "missing"}]
    /\ refined_file = [k \in Cases |-> InitialContent]
    /\ other_files = AsFound
    /\ pc = "v_loop"
    /\ i = 1
    /\ valid_results = <<>>
    /\ T_valid = NoFile
    /\ validated = {}
    /\ vt = FreshVerify
    /\ rp = FreshRepair
    /\ metrics = <<>>
    /\ final_evaluation = NoFile
    /\ em = FreshMeasure
    /\ scratch = {}
    /\ FnIdle
    /\ ScriptIdle

\* ------------------------------------------------- VerificationPhase.run
eval_vars == <<metrics, final_evaluation, em>>

\* the entry the loop is at
Current == to_verify[i]

\* the directory a `with tempfile.TemporaryDirectory()` block of a function
\* created for an entry; it is removed when the block is left
TmpDir(owner, case) == [owner |-> owner, case |-> case]

\* the directories of _verify_test (line 83) and _repair_test (line 210)
VerifyDirs(case) == {TmpDir("_verify_test", case), TmpDir("_repair_test", case)}

\* lines 50-63: the verdict of _verify_test becomes a record of valid_results
\* and the loop goes on to the next entry
Return(locals, is_valid, reason) ==
    /\ valid_results' =
           Append(valid_results,
                  [case |-> locals.case, verified |-> is_valid,
                   error |-> IF is_valid THEN "" ELSE reason])
    /\ vt' = [locals EXCEPT !.ret = <<is_valid, reason>>]
    /\ scratch' = scratch \ VerifyDirs(locals.case)
    /\ i' = i + 1
    /\ pc' = "v_loop"

\* the for loop is exhausted
VLoopExit ==
    /\ pc = "v_loop"
    /\ i > Len(to_verify)
    /\ pc' = "v_save"
    /\ vt' = FreshVerify
    /\ rp' = FreshRepair
    /\ UNCHANGED <<refined_results, projects, other_files, refined_file, i, valid_results,
                   T_valid, validated, eval_vars, scratch, fn_vars, script_vars>>

\* lines 36-39: if not project or not project.jar_files: continue
VSkip ==
    /\ pc = "v_loop"
    /\ i <= Len(to_verify)
    /\ projects[Current.case] # "ok"
    /\ i' = i + 1
    /\ vt' = FreshVerify
    /\ rp' = FreshRepair
    /\ UNCHANGED <<refined_results, projects, other_files, refined_file, pc, valid_results,
                   T_valid, validated, eval_vars, scratch, fn_vars, script_vars>>

\* lines 41-48 and 83-91: _verify_test is entered
VBegin ==
    /\ pc = "v_loop"
    /\ i <= Len(to_verify)
    /\ projects[Current.case] = "ok"
    /\ vt' = [FreshVerify EXCEPT !.case = Current.case]
    /\ rp' = FreshRepair
    /\ scratch' = scratch \cup {TmpDir("_verify_test", Current.case)}
    /\ pc' = "v_javac_refined"
    /\ UNCHANGED <<refined_results, projects, other_files, refined_file, i, valid_results,
                   T_valid, validated, eval_vars, fn_vars, script_vars>>

\* faulty variant of the loop of _repair_test: range(1, max_attempts + 2)
NextAttemptOneMore(locals, caller) ==
    IF locals.attempt < max_attempts + 1
    THEN /\ rp' = [locals EXCEPT !.attempt = @ + 1]
         /\ vt' = caller
         /\ pc' = "r_generate"
         /\ scratch' = scratch \ {TmpDir("_repair_test", caller.case)}
         /\ UNCHANGED <<valid_results, i>>
    ELSE /\ rp' = [locals EXCEPT !.result = "False"]
         /\ Return(caller, FALSE, "Compilation failed (Repair failed)")

\* faulty variant of the caller of _repair_test: the return value False is
\* not acted on and _verify_test goes on to the original
NextAttemptFailureIgnored(locals, caller) ==
    IF locals.attempt < max_attempts
    THEN /\ rp' = [locals EXCEPT !.attempt = @ + 1]
         /\ vt' = caller
         /\ pc' = "r_generate"
         /\ scratch' = scratch \ {TmpDir("_repair_test", caller.case)}
         /\ UNCHANGED <<valid_results, i>>
    ELSE /\ rp' = [locals EXCEPT !.result = "False"]
         /\ vt' = [caller EXCEPT !.res = 0]
         /\ pc' = "v_javac_orig"
         /\ scratch' = scratch \ {TmpDir("_repair_test", caller.case)}
         /\ UNCHANGED <<valid_results, i>>

\* the for loop of _repair_test moves on after attempt `locals.attempt`:
\* the next attempt, or return False and lines 105-106 of _verify_test
NextAttempt(locals, caller) ==
    IF locals.attempt < max_attempts
    THEN /\ rp' = [locals EXCEPT !.attempt = @ + 1]
         /\ vt' = caller
         /\ pc' = "r_generate"
         /\ scratch' = scratch \ {TmpDir("_repair_test", caller.case)}
         /\ UNCHANGED <<valid_results, i>>
    ELSE /\ rp' = [locals EXCEPT !.result = "False"]
         /\ Return(caller, FALSE, "Compilation failed (Repair failed)")

\* lines 93-99 and 140-175: the refined file is compiled; on failure
\* _repair_test is entered and reads the file
VJavacRefined ==
    /\ pc = "v_javac_refined"
    /\ \E returncode \in JavacReturncodes(refined_file[vt.case]) :
         LET src == Judged(refined_file[vt.case], returncode) IN
         /\ refined_file' = [refined_file EXCEPT ![vt.case] = src]
         /\ IF returncode = 0
            THEN /\ vt' = [vt EXCEPT !.res = 0, !.out_dir = "refined",
                                     !.compiles = @ + 1]
                 /\ pc' = "v_javac_orig"
                 /\ UNCHANGED rp
            ELSE /\ vt' = [vt EXCEPT !.res = returncode, !.compiles = @ + 1]
                 /\ rp' = [FreshRepair EXCEPT !.attempt = 1, !.code = src,
                                              !.error_log = src.id]
                 /\ pc' = "r_generate"
    /\ UNCHANGED <<refined_results, projects, other_files, i, valid_results, T_valid,
                   validated, eval_vars, scratch, fn_vars, script_vars>>

\* faulty variant of the request: a failed request ends the loop (break
\* instead of continue) and _repair_test returns False at once
RGenerateGivesUp ==
    /\ pc = "r_generate"
    /\ \E success \in BOOLEAN :
         LET asked == [rp EXCEPT !.requests = @ + 1] IN
         IF ~success
         THEN /\ rp' = [asked EXCEPT !.result = "False"]
              /\ Return(vt, FALSE, "Compilation failed (Repair failed)")
              /\ UNCHANGED refined_file
         ELSE LET repaired_code == clean_java_code(rp.attempt) IN
              /\ refined_file' = [refined_file EXCEPT ![vt.case] = repaired_code]
              /\ rp' = [asked EXCEPT !.repaired_code = repaired_code]
              /\ pc' = "r_javac"
              /\ scratch' = scratch \cup {TmpDir("_repair_test", vt.case)}
              /\ UNCHANGED <<vt, valid_results, i>>
    /\ UNCHANGED <<refined_results, projects, other_files, T_valid, validated, eval_vars,
                   fn_vars, script_vars>>

\* faulty variant of the request: the answer is written over the
\* scaffolding of the refined test as well
RGenerateRewritesScaffolding ==
    /\ pc = "r_generate"
    /\ \E success \in BOOLEAN :
         LET asked == [rp EXCEPT !.requests = @ + 1] IN
         IF ~success
         THEN /\ NextAttempt(asked, vt)
              /\ UNCHANGED <<refined_file, other_files>>
         ELSE LET repaired_code == clean_java_code(rp.attempt) IN
              /\ refined_file' = [refined_file EXCEPT ![vt.case] = repaired_code]
              /\ other_files' =
                     [other_files EXCEPT ![vt.case]["refined_scaffolding"] = repaired_code]
              /\ rp' = [asked EXCEPT !.repaired_code = repaired_code]
              /\ pc' = "r_javac"
              /\ scratch' = scratch \cup {TmpDir("_repair_test", vt.case)}
              /\ UNCHANGED <<vt, valid_results, i>>
    /\ UNCHANGED <<refined_results, projects, T_valid, validated, eval_vars,
                   fn_vars, script_vars>>

\* lines 177-207: the prompt is built from code and error_log and sent; a
\* failed request goes on to the next attempt, an answer is cleaned and
\* written to the file
RGenerate ==
    /\ pc = "r_generate"
    /\ \E success \in BOOLEAN :
         LET asked == [rp EXCEPT !.requests = @ + 1] IN
         IF ~success
         THEN /\ NextAttempt(asked, vt)
              /\ UNCHANGED refined_file
         ELSE LET repaired_code == clean_java_code(rp.attempt) IN
              /\ refined_file' = [refined_file EXCEPT ![vt.case] = repaired_code]
              /\ rp' = [asked EXCEPT !.repaired_code = repaired_code]
              /\ pc' = "r_javac"
              /\ scratch' = scratch \cup {TmpDir("_repair_test", vt.case)}
              /\ UNCHANGED <<vt, valid_results, i>>
    /\ UNCHANGED <<refined_results, projects, other_files, T_valid, validated, eval_vars,
                   fn_vars, script_vars>>

\* faulty variant of the compilation: after a failure the error log is
\* updated but code is left as it was (line 223 missing)
RJavacKeepsCode ==
    /\ pc = "r_javac"
    /\ \E returncode \in JavacReturncodes(refined_file[vt.case]) :
         LET src == Judged(refined_file[vt.case], returncode)
             compiled == [rp EXCEPT !.compiles = @ + 1]
         IN
         /\ refined_file' = [refined_file EXCEPT ![vt.case] = src]
         /\ IF returncode = 0
            THEN /\ rp' = [compiled EXCEPT !.result = "True"]
                 /\ vt' = [vt EXCEPT !.compiles = @ + 1]
                 /\ pc' = "v_javac_again"
                 /\ scratch' = scratch \ {TmpDir("_repair_test", vt.case)}
                 /\ UNCHANGED <<valid_results, i>>
            ELSE NextAttempt([compiled EXCEPT !.error_log = src.id],
                             [vt EXCEPT !.compiles = @ + 1])
    /\ UNCHANGED <<refined_results, projects, other_files, T_valid, validated, eval_vars,
                   fn_vars, script_vars>>

\* lines 210-223: the repaired file is compiled in a scratch directory
RJavac ==
    /\ pc = "r_javac"
    /\ \E returncode \in JavacReturncodes(refined_file[vt.case]) :
         LET src == Judged(refined_file[vt.case], returncode)
             compiled == [rp EXCEPT !.compiles = @ + 1]
         IN
         /\ refined_file' = [refined_file EXCEPT ![vt.case] = src]
         /\ IF returncode = 0
            THEN /\ rp' = [compiled EXCEPT !.result = "True"]
                 /\ vt' = [vt EXCEPT !.compiles = @ + 1]
                 /\ pc' = "v_javac_again"
                 /\ scratch' = scratch \ {TmpDir("_repair_test", vt.case)}
                 /\ UNCHANGED <<valid_results, i>>
            ELSE \* error_log = res.stderr; code = repaired_code
                 NextAttempt([compiled EXCEPT !.error_log = src.id, !.code = src],
                             [vt EXCEPT !.compiles = @ + 1])
    /\ UNCHANGED <<refined_results, projects, other_files, T_valid, validated, eval_vars,
                   fn_vars, script_vars>>

\* lines 100-104: the repaired file is compiled again, into out_dir
VJavacAgain ==
    /\ pc = "v_javac_again"
    /\ \E returncode \in JavacReturncodes(refined_file[vt.case]) :
         LET locals == [vt EXCEPT !.res = returncode, !.compiles = @ + 1,
                                  !.out_dir = IF returncode = 0 THEN "refined" ELSE @]
         IN IF returncode # 0
            THEN Return(locals, FALSE, "Compilation failed after repair")
            ELSE /\ vt' = locals
                 /\ pc' = "v_javac_orig"
                 /\ UNCHANGED <<valid_results, i, scratch>>
    /\ UNCHANGED <<refined_results, projects, other_files, refined_file, rp, T_valid,
                   validated, eval_vars, fn_vars, script_vars>>

\* lines 108-114: the original file is compiled into the same out_dir; the
\* CompletedProcess is not assigned, and the test that follows reads res
VJavacOrig ==
    /\ pc = "v_javac_orig"
    /\ \E returncode \in {0, 1} :
         LET locals == [vt EXCEPT !.orig_rc = returncode,
                                  !.out_dir = IF returncode = 0 THEN "original" ELSE @]
         IN IF locals.res # 0
            THEN Return(locals, FALSE, "Original compilation failed")
            ELSE /\ vt' = locals
                 /\ pc' = "v_run_orig"
                 /\ UNCHANGED <<valid_results, i, scratch>>
    /\ UNCHANGED <<refined_results, projects, other_files, refined_file, rp, T_valid,
                   validated, eval_vars, fn_vars, script_vars>>

\* faulty variant of the first run: the refined test is run straight after
\* it, without the recompilation of line 124
VRunOrigNoRecompile ==
    /\ pc = "v_run_orig"
    /\ \E orig_res \in RunResults :
         vt' = [vt EXCEPT !.orig_res = orig_res, !.orig_passed = Passed(orig_res),
                          !.orig_class = vt.out_dir]
    /\ pc' = "v_run_ref"
    /\ UNCHANGED <<refined_results, projects, other_files, refined_file, i, valid_results,
                   rp, T_valid, validated, eval_vars, scratch, fn_vars, script_vars>>

\* lines 116-120: the runner runs the test class found in out_dir
VRunOrig ==
    /\ pc = "v_run_orig"
    /\ \E orig_res \in RunResults :
         vt' = [vt EXCEPT !.orig_res = orig_res, !.orig_passed = Passed(orig_res),
                          !.orig_class = vt.out_dir]
    /\ pc' = "v_javac_ref2"
    /\ UNCHANGED <<refined_results, projects, other_files, refined_file, i, valid_results,
                   rp, T_valid, validated, eval_vars, scratch, fn_vars, script_vars>>

\* line 124: the refined file is compiled over the original's class; the
\* CompletedProcess is not assigned
VJavacRef2 ==
    /\ pc = "v_javac_ref2"
    /\ \E returncode \in JavacReturncodes(refined_file[vt.case]) :
         vt' = [vt EXCEPT !.out_dir = IF returncode = 0 THEN "refined" ELSE @]
    /\ pc' = "v_run_ref"
    /\ UNCHANGED <<refined_results, projects, other_files, refined_file, i, valid_results,
                   rp, T_valid, validated, eval_vars, scratch, fn_vars, script_vars>>

\* lines 125-136: the runner runs the test class again; oracle check
VRunRef ==
    /\ pc = "v_run_ref"
    /\ \E ref_res \in RunResults :
         LET locals == [vt EXCEPT !.ref_res = ref_res, !.ref_passed = Passed(ref_res),
                                  !.ref_class = vt.out_dir]
             verdict == OracleCheck(locals.orig_passed, locals.ref_passed)
         IN Return(locals, verdict[1], verdict[2])
    /\ UNCHANGED <<refined_results, projects, other_files, refined_file, rp, T_valid,
                   validated, eval_vars, fn_vars, script_vars>>

\* the positions at which a run_javac / run_java call of the verification
\* phase is pending
VToolSteps ==
    {"v_javac_refined", "r_javac", "v_javac_again", "v_javac_orig",
     "v_run_orig", "v_javac_ref2", "v_run_ref"}

\* the pending calls that compile the candidate in the compile-and-repair part
VCandidateCompiles == {"v_javac_refined", "r_javac", "v_javac_again"}

\* faulty variant of the timeout: the directories are not removed when the
\* exception passes through (mkdtemp without a `with` block)
VTimeoutNoCleanup ==
    /\ pc \in VToolSteps
    /\ pc' = "v_aborted"
    /\ vt' = [vt EXCEPT !.compiles = IF pc \in VCandidateCompiles THEN @ + 1 ELSE @]
    /\ rp' = [rp EXCEPT !.compiles = IF pc = "r_javac" THEN @ + 1 ELSE @]
    /\ UNCHANGED <<refined_results, projects, other_files, refined_file, i, valid_results,
                   T_valid, validated, eval_vars, scratch, fn_vars, script_vars>>

\* subprocess.run raises TimeoutExpired; nothing in _repair_test,
\* _verify_test or run catches it, so run is left at this point; the
\* `with` blocks the exception passes through remove their directories
VTimeout ==
    /\ pc \in VToolSteps
    /\ pc' = "v_aborted"
    /\ scratch' = scratch \ VerifyDirs(vt.case)
    /\ vt' = [vt EXCEPT !.compiles = IF pc \in VCandidateCompiles THEN @ + 1 ELSE @]
    /\ rp' = [rp EXCEPT !.compiles = IF pc = "r_javac" THEN @ + 1 ELSE @]
    /\ UNCHANGED <<refined_results, projects, other_files, refined_file, i, valid_results,
                   T_valid, validated, eval_vars, fn_vars, script_vars>>

\* lines 65-69: the verification ledger is written
VSave ==
    /\ pc = "v_save"
    /\ T_valid' = File(valid_results)
    /\ pc' = "v_copy"
    /\ UNCHANGED <<refined_results, projects, other_files, refined_file, i, valid_results,
                   validated, vt, rp, eval_vars, scratch, fn_vars, script_vars>>

\* faulty variant of the copy loop: the `if res.get('verified')` test is
\* missing and the file of every record is copied
VCopyUnfiltered ==
    /\ pc = "v_copy"
    /\ validated' = {valid_results[k].case : k \in 1..Len(valid_results)}
    /\ pc' = "v_done"
    /\ UNCHANGED <<refined_results, projects, other_files, refined_file, i, valid_results,
                   T_valid, vt, rp, eval_vars, scratch, fn_vars, script_vars>>

\* lines 71-80: the verified files are copied to validated/
VCopy ==
    /\ pc = "v_copy"
    /\ validated' = {valid_results[k].case :
                        k \in {n \in 1..Len(valid_results) : valid_results[n].verified}}
    /\ pc' = "v_done"
    /\ UNCHANGED <<refined_results, projects, other_files, refined_file, i, valid_results,
                   T_valid, vt, rp, eval_vars, scratch, fn_vars, script_vars>>

VerificationStep ==
    \/ VLoopExit \/ VSkip \/ VBegin \/ VJavacRefined \/ RGenerate \/ RJavac
    \/ VJavacAgain \/ VJavacOrig \/ VRunOrig \/ VJavacRef2 \/ VRunRef
    \/ VTimeout \/ VSave \/ VCopy

\* --------------------------------------------------- EvaluationPhase.run
verif_vars == <<refined_file, valid_results, T_valid, validated, vt, rp>>

\* the class name of a ledger entry (item['class'])
CaseClass(case) == <<"a", ".", "B">>

\* jacoco.xml files the report step may leave behind
SampleReports ==
    {Report(TRUE, <<ClassNode(<<"a", "/", "B">>, <<Counter("LINE", 8, 2)>>),
                    ClassNode(<<"a", "/", "B">>, <<Counter("BRANCH", 1, 0)>>)>>),
     Report(TRUE, <<ClassNode(<<"B">>, <<Counter("LINE", 8, 2)>>)>>),
     Malformed}

\* mutations.xml files PIT may leave behind
SampleMutations ==
    {MutationReport(TRUE, <<>>),
     MutationReport(TRUE, <<"KILLED", "SURVIVED">>),
     MutationReport(FALSE, <<>>)}

\* lines 18-29: the verification ledger is read
EStart ==
    /\ pc = "v_done"
    /\ T_valid.written
    /\ metrics' = <<>>
    /\ i' = 1
    /\ pc' = "e_loop"
    /\ UNCHANGED <<refined_results, projects, other_files, verif_vars, final_evaluation, em,
                   scratch, fn_vars, script_vars>>

\* the for loop is exhausted
ELoopExit ==
    /\ pc = "e_loop"
    /\ i > Len(verified)
    /\ pc' = "e_save"
    /\ em' = FreshMeasure
    /\ UNCHANGED <<refined_results, projects, other_files, verif_vars, i, metrics,
                   final_evaluation, scratch, fn_vars, script_vars>>

\* lines 37-44 and 60-84: `if not project: continue`; project.jar_files[0]
\* raises IndexError on an empty list; otherwise _measure_metrics is
\* entered.  (The static code metrics of lines 68-73 add keys of their own
\* and are left out.)
EBegin ==
    /\ pc = "e_loop"
    /\ i <= Len(verified)
    /\ LET case == verified[i].case IN
       IF projects[case] = "missing"
       THEN /\ i' = i + 1
            /\ em' = FreshMeasure
            /\ UNCHANGED <<pc, scratch>>
       ELSE IF projects[case] = "nojars"
       THEN /\ pc' = "e_aborted"
            /\ em' = FreshMeasure
            /\ UNCHANGED <<i, scratch>>
       ELSE /\ em' = [FreshMeasure EXCEPT !.case = case]
            /\ pc' = "e_javac"
            /\ scratch' = scratch \cup {TmpDir("_measure_metrics", case)}
            /\ UNCHANGED i
    /\ UNCHANGED <<refined_results, projects, other_files, verif_vars, metrics,
                   final_evaluation, fn_vars, script_vars>>

\* lines 45-49: the dict _measure_metrics returned is appended
Measured(locals) ==
    /\ em' = [locals EXCEPT !.returned = TRUE]
    /\ metrics' = Append(metrics,
                         [case |-> locals.case,
                          compilation_rate |-> locals.m.compilation_rate,
                          line_coverage |-> locals.m.line_coverage,
                          branch_coverage |-> locals.m.branch_coverage,
                          mutation_score |-> locals.m.mutation_score])
    /\ scratch' = scratch \ {TmpDir("_measure_metrics", locals.case)}
    /\ i' = i + 1
    /\ pc' = "e_loop"

\* lines 84-88: the test is compiled (the classpath is not the one of the
\* verification phase: it adds the hamcrest jar)
EJavac ==
    /\ pc = "e_javac"
    /\ \E returncode \in {0, 1} :
         IF returncode # 0
         THEN Measured([em EXCEPT !.m.compilation_rate = 0])
         ELSE /\ pc' = "e_run"
              /\ UNCHANGED <<em, metrics, i, scratch>>
    /\ UNCHANGED <<refined_results, projects, other_files, verif_vars, final_evaluation,
                   fn_vars, script_vars>>

\* lines 90-124: the SUT is extracted and instrumented, the test is run; the
\* execution-data file exists afterwards or not
ERun ==
    /\ pc = "e_run"
    /\ \E exec_exists \in BOOLEAN :
         /\ em' = [em EXCEPT !.exec_exists = exec_exists]
         /\ pc' = IF exec_exists THEN "e_report" ELSE "e_pit"
    /\ UNCHANGED <<refined_results, projects, other_files, verif_vars, i, metrics,
                   final_evaluation, scratch, fn_vars, script_vars>>

\* lines 125-135: the XML report is generated and, if it exists, parsed
\* into the local cov
EReport ==
    /\ pc = "e_report"
    /\ \/ em' = [em EXCEPT !.xml_exists = FALSE]
       \/ \E xml \in SampleReports :
            em' = [em EXCEPT !.xml_exists = TRUE,
                             !.cov = _parse_jacoco(xml, CaseClass(em.case))]
    /\ pc' = "e_pit"
    /\ UNCHANGED <<refined_results, projects, other_files, verif_vars, i, metrics,
                   final_evaluation, scratch, fn_vars, script_vars>>

\* lines 137-166: PIT is run; mutations.xml, if it exists, is parsed into
\* metrics["mutation_score"]; metrics is returned
EPit ==
    /\ pc = "e_pit"
    /\ \/ Measured(em)
       \/ \E xml \in SampleMutations :
            Measured([em EXCEPT !.pit_xml_exists = TRUE,
                                !.m.mutation_score = _parse_pit(xml)])
    /\ UNCHANGED <<refined_results, projects, other_files, verif_vars, final_evaluation,
                   fn_vars, script_vars>>

\* the positions at which a runner call with a timeout is pending
\* (run_javac, run_with_jacoco_offline, run_pitest)
EToolSteps == {"e_javac", "e_run", "e_pit"}

\* subprocess.run raises TimeoutExpired; nothing in _measure_metrics or run
\* catches it, so run is left at this point
ETimeout ==
    /\ pc \in EToolSteps
    /\ pc' = "e_aborted"
    /\ scratch' = scratch \ {TmpDir("_measure_metrics", em.case)}
    /\ UNCHANGED <<refined_results, projects, other_files, verif_vars, i, eval_vars, fn_vars, script_vars>>

\* lines 51-57: the metrics ledger is written
ESave ==
    /\ pc = "e_save"
    /\ final_evaluation' = File(metrics)
    /\ pc' = "e_done"
    /\ UNCHANGED <<refined_results, projects, other_files, verif_vars, i, metrics, em,
                   scratch, fn_vars, script_vars>>

EvaluationStep ==
    \/ EStart \/ ELoopExit \/ EBegin \/ EJavac \/ ERun \/ EReport \/ EPit
    \/ ETimeout \/ ESave

Next == VerificationStep \/ EvaluationStep

Spec == Init /\ [][Next]_vars

\* ------------------------------------------------- _parse_jacoco on inputs
\* the report file and the class name are any of the bounded inputs
InitCov ==
    /\ PipelineIdle
    /\ report \in Reports
    /\ target_class \in TargetClasses
    /\ cov = EmptyCov
    /\ cpc = "input"
    /\ PitIdle
    /\ StatsIdle
    /\ SutIdle
    /\ AuxIdle
    /\ ScriptIdle

\* cov = self._parse_jacoco(xml_file, class_name)
ParseJacoco ==
    /\ cpc = "input"
    /\ cov' = _parse_jacoco(report, target_class)
    /\ cpc' = "parsed"
    /\ UNCHANGED <<report, target_class, pipeline_vars, script_vars, pit_vars, stats_vars, sut_vars, aux_vars>>

NextCov == ParseJacoco

SpecCov == InitCov /\ [][NextCov]_vars

\* ------------------------------------- the mutation parsers on inputs
InitPit ==
    /\ PipelineIdle
    /\ CovIdle
    /\ StatsIdle
    /\ SutIdle
    /\ AuxIdle
    /\ ScriptIdle
    /\ pit_xml \in MutationReports
    /\ score = PctZero
    /\ mut = MutationError
    /\ mpc = "input"

\* metrics["mutation_score"] = self._parse_pit(pit_xml)
ParsePit ==
    /\ mpc = "input"
    /\ score' = _parse_pit(pit_xml)
    /\ mpc' = "parsed"
    /\ UNCHANGED <<pit_xml, mut, pipeline_vars, script_vars, cov_vars, stats_vars, sut_vars, aux_vars>>

\* mut_valid = evaluator.measure_mutation_score_pit(...)
MeasurePit ==
    /\ mpc = "parsed"
    /\ mut' = measure_mutation_score_pit(pit_xml)
    /\ mpc' = "measured"
    /\ UNCHANGED <<pit_xml, score, pipeline_vars, script_vars, cov_vars, stats_vars, sut_vars, aux_vars>>

NextPit == ParsePit \/ MeasurePit

SpecPit == InitPit /\ [][NextPit]_vars

\* ------------------------------------ _calculate_statistics on inputs
\* the data frame has one row per test and, per metric, a baseline and a
\* valid column of the same length
InitStats ==
    /\ PipelineIdle
    /\ CovIdle
    /\ PitIdle
    /\ SutIdle
    /\ AuxIdle
    /\ ScriptIdle
    /\ \E rows \in 1..MaxRows :
          /\ df_baseline \in [1..rows -> MetricValues]
          /\ df_valid \in [1..rows -> MetricValues]
    /\ stats_results = <<>>
    /\ apc = "input"

\* lines 215-242 for one metric: the row with the effect size and the mean
\* difference is appended and saved (p_value, the result of
\* scipy.stats.wilcoxon, is left out)
CalculateStatistics ==
    /\ apc = "input"
    /\ stats_results' =
           Append(stats_results,
                  [effect_size_a12 |-> _vargha_delaney(df_baseline, df_valid),
                   mean_diff |-> MeanDiff(df_baseline, df_valid)])
    /\ apc' = "saved"
    /\ UNCHANGED <<df_baseline, df_valid, pipeline_vars, script_vars, cov_vars, pit_vars, sut_vars, aux_vars>>

NextStats == CalculateStatistics

SpecStats == InitStats /\ [][NextStats]_vars

\* --------------------------------------------- find_sut_file on inputs
InitSut ==
    /\ PipelineIdle
    /\ CovIdle
    /\ PitIdle
    /\ StatsIdle
    /\ AuxIdle
    /\ ScriptIdle
    /\ sut_class \in TargetClasses
    /\ sut_project \in ProjectNames
    /\ project_dir \in ProjectDirs
    /\ sut_path = NotFound
    /\ fpc = "input"

\* sut_path = find_sut_file(...) of gspo_utg.utils.static_analysis
FindSutFile ==
    /\ fpc = "input"
    /\ sut_path' \in find_sut_file(sut_class, sut_project, project_dir)
    /\ fpc' = "gspo_utg"
    /\ UNCHANGED <<sut_class, sut_project, project_dir, pipeline_vars,
                   script_vars, cov_vars, pit_vars, stats_vars, aux_vars>>

\* sut_path = find_sut_file(...) of pfc3.utils.static_analysis, as the
\* refinement and the verification phase call it
FindSutFilePfc3 ==
    /\ fpc = "input"
    /\ sut_path' \in find_sut_file_pfc3(sut_class, sut_project, project_dir)
    /\ fpc' = "pfc3"
    /\ UNCHANGED <<sut_class, sut_project, project_dir, pipeline_vars,
                   script_vars, cov_vars, pit_vars, stats_vars, aux_vars>>

NextSut == FindSutFile \/ FindSutFilePfc3

SpecSut == InitSut /\ [][NextSut]_vars

\* --------------------------------------- extract_context and its callers
InitCtx ==
    /\ PipelineIdle
    /\ CovIdle
    /\ PitIdle
    /\ StatsIdle
    /\ SutIdle
    /\ ScriptIdle
    /\ RunIdle
    /\ ctx_sut \in SutPaths
    /\ context = <<>>
    /\ xpc = "input"

\* extract_context called on a path as its signature asks
ExtractContext ==
    /\ xpc = "input"
    /\ ctx_sut.path
    /\ LET call == CallExtractContext(<<ctx_sut.file>>)
       IN /\ context' = call.value
          /\ xpc' = IF call.raised THEN "raised" ELSE "returned"
    /\ UNCHANGED <<ctx_sut, pipeline_vars, script_vars, cov_vars, pit_vars,
                   stats_vars, sut_vars, run_vars>>

\* refinement.py, LLMRefiner.refine_test lines 16-22: context = "";
\* `if sut_path:` the extractor is called with (sut_path, class_name); an
\* exception leaves refine_test and RefinementPhase.run, which has no try
\* around the call at line 77; otherwise the prompt is built and sent
RefineTest ==
    /\ xpc = "input"
    /\ IF ctx_sut.path
       THEN LET call == CallExtractContext(<<ctx_sut.file, "class_name">>)
            IN /\ context' = call.value
               /\ xpc' = IF call.raised THEN "refine_raised" ELSE "refine_generate"
       ELSE /\ context' = <<>>
            /\ xpc' = "refine_generate"
    /\ UNCHANGED <<ctx_sut, pipeline_vars, script_vars, cov_vars, pit_vars,
                   stats_vars, sut_vars, run_vars>>

\* verification.py, _repair_test lines 143-172: context = ""; inside try,
\* `if sut_path:` context = extractor.extract_context(sut_path); any
\* exception is caught and printed; the file is read and the loop entered
RepairContext ==
    /\ xpc = "input"
    /\ IF ctx_sut.path
       THEN LET call == CallExtractContext(<<ctx_sut.file>>)
            IN context' = IF call.raised THEN <<>> ELSE call.value
       ELSE context' = <<>>
    /\ xpc' = "repair_loop"
    /\ UNCHANGED <<ctx_sut, pipeline_vars, script_vars, cov_vars, pit_vars,
                   stats_vars, sut_vars, run_vars>>

NextCtx == ExtractContext \/ RefineTest \/ RepairContext

SpecCtx == InitCtx /\ [][NextCtx]_vars

\* ------------------------------------------- run_pipeline.py: PipelineRunner
\* ids of self.phases, in list order
PhaseIds == 1..NumPhases

\* the command lines argparse accepts: --resume or not, --phase 1..5 or
\* none (args.phase is None, here 0); --limit and --full only affect what
\* the phase scripts do
CommandLines == [resume : BOOLEAN, phase : {0} \cup PhaseIds]

\* the loop of get_last_completed_phase from index k - 1 downwards
RECURSIVE LastMarkerFrom(_, _)
LastMarkerFrom(k, existing) ==
    IF k < 1 THEN 0
    ELSE IF k \in existing THEN k
    ELSE LastMarkerFrom(k - 1, existing)

get_last_completed_phase(existing) == LastMarkerFrom(NumPhases, existing)

\* lines 215-224
StartPhase(cmdline, existing) ==
    IF cmdline.resume THEN get_last_completed_phase(existing) + 1
    ELSE IF cmdline.phase # 0 THEN cmdline.phase
    ELSE 1

\* how subprocess.run of a phase script ends: a returncode, or an
\* exception (the interpreter cannot be started)
ProcessEnds ==
    {[raised |-> FALSE, returncode |-> 0], [raised |-> FALSE, returncode |-> 1],
     [raised |-> TRUE, returncode |-> -1]}

\* faulty variant: the marker file is not looked at
PhaseSucceededByExitCode(end, marker_exists) ==
    ~end.raised /\ end.returncode = 0

\* the value run_phase returns (lines 166-185)
PhaseSucceeded(end, marker_exists) ==
    /\ ~end.raised
    /\ end.returncode = 0
    /\ marker_exists

\* run_full_pipeline returns
Exit(status) ==
    /\ exit_status' = status
    /\ rpc' = "exited"

\* the state in which run_pipeline.py is started for the first time
InitRun ==
    /\ PipelineIdle
    /\ CovIdle
    /\ PitIdle
    /\ StatsIdle
    /\ SutIdle
    /\ CtxIdle
    /\ ScriptIdle
    /\ markers = {}
    /\ args = [resume |-> FALSE, phase |-> 0]
    /\ start_phase = 0
    /\ phase = 0
    /\ skipped = {}
    /\ executed = <<>>
    /\ exit_status = -1
    /\ rpc = "shell"

\* main and lines 187-224 of run_full_pipeline: the script is started (again)
\* with a command line; with unmet prerequisites it returns 1, otherwise
\* start_phase is determined and the loop entered
RStart ==
    /\ rpc \in {"shell", "exited"}
    /\ \E cmdline \in CommandLines, errors \in BOOLEAN :
         /\ args' = cmdline
         /\ skipped' = {}
         /\ executed' = <<>>
         /\ IF errors
            THEN /\ Exit(1)
                 /\ start_phase' = 0
                 /\ phase' = 0
            ELSE /\ start_phase' = StartPhase(cmdline, markers)
                 /\ phase' = 1
                 /\ rpc' = "loop"
                 /\ exit_status' = -1
    /\ UNCHANGED <<markers, pipeline_vars, script_vars, cov_vars, pit_vars,
                   stats_vars, sut_vars, ctx_vars>>

\* lines 230-232: a phase before start_phase is passed over
RSkip ==
    /\ rpc = "loop"
    /\ phase <= NumPhases
    /\ phase < start_phase
    /\ skipped' = skipped \cup {phase}
    /\ phase' = phase + 1
    /\ UNCHANGED <<markers, args, start_phase, executed, exit_status, rpc,
                   pipeline_vars, script_vars, cov_vars, pit_vars,
                   stats_vars, sut_vars, ctx_vars>>

\* lines 234-235: with --phase every other phase is passed over silently
RNotRequested ==
    /\ rpc = "loop"
    /\ phase <= NumPhases
    /\ phase >= start_phase
    /\ args.phase # 0 /\ phase # args.phase
    /\ phase' = phase + 1
    /\ UNCHANGED <<markers, args, start_phase, skipped, executed, exit_status,
                   rpc, pipeline_vars, script_vars, cov_vars, pit_vars,
                   stats_vars, sut_vars, ctx_vars>>

\* lines 237 and 136-162: run_phase starts the phase script and waits
RLaunch ==
    /\ rpc = "loop"
    /\ phase <= NumPhases
    /\ phase >= start_phase
    /\ args.phase = 0 \/ phase = args.phase
    /\ rpc' = "running"
    /\ UNCHANGED <<markers, args, start_phase, phase, skipped, executed,
                   exit_status, pipeline_vars, script_vars, cov_vars, pit_vars,
                   stats_vars, sut_vars, ctx_vars>>

\* lines 158-185 and 239-245: the phase script ends, having written its
\* output file or not; run_phase returns, and run_full_pipeline returns 1 on
\* False, leaves the loop after a requested single phase, or goes on
RFinish ==
    /\ rpc = "running"
    /\ \E end \in ProcessEnds, written \in BOOLEAN :
         LET existing == IF written /\ ~end.raised
                         THEN markers \cup {phase} ELSE markers
             success == PhaseSucceeded(end, phase \in existing)
         IN
         /\ markers' = existing
         /\ executed' = Append(executed,
                               [id |-> phase, end |-> end,
                                marker |-> phase \in existing,
                                success |-> success])
         /\ IF ~success
            THEN Exit(1) /\ UNCHANGED phase
            ELSE IF args.phase # 0
            THEN Exit(0) /\ UNCHANGED phase
            ELSE /\ phase' = phase + 1
                 /\ rpc' = "loop"
                 /\ UNCHANGED exit_status
    /\ UNCHANGED <<args, start_phase, skipped, pipeline_vars, script_vars,
                   cov_vars, pit_vars, stats_vars, sut_vars, ctx_vars>>

\* lines 247-264: the loop is exhausted; the summary is printed
RComplete ==
    /\ rpc = "loop"
    /\ phase > NumPhases
    /\ Exit(0)
    /\ UNCHANGED <<markers, args, start_phase, phase, skipped, executed,
                   pipeline_vars, script_vars, cov_vars, pit_vars,
                   stats_vars, sut_vars, ctx_vars>>

NextRun == RStart \/ RSkip \/ RNotRequested \/ RLaunch \/ RFinish \/ RComplete

SpecRun == InitRun /\ [][NextRun]_vars


\* ------------------------------------- phase4_evaluation.py: main, RQ1 loop
\* {**a, **b}: the keys of both, b's value where both have the key
Merge(a, b) ==
    [k \in DOMAIN a \cup DOMAIN b |-> IF k \in DOMAIN b THEN b[k] ELSE a[k]]

\* dicts measure_coverage_jacoco may return: a measurement, or zeros with an
\* error tag (no execution data, report failure, timeout, exception)
CoverageDicts ==
    {[line_coverage |-> Pct(80, 1), branch_coverage |-> Pct(50, 1),
      method_coverage |-> Pct(100, 1)],
     [line_coverage |-> PctZero, branch_coverage |-> PctZero,
      method_coverage |-> PctZero, error |-> "coverage"]}

\* dicts measure_mutation_score_pit may return: a measurement (with PIT's
\* own line_coverage, 0.0 when the report has no line-coverage element), or
\* zeros with an error tag
MutationDicts ==
    {[mutation_score |-> Pct(50, 1), mutants_killed |-> 1, total_mutants |-> 2,
      line_coverage |-> PctZero],
     [mutation_score |-> PctZero, mutants_killed |-> 0, total_mutants |-> 0,
      line_coverage |-> PctZero, error |-> "mutation"]}

\* valid_success = [r for r in valid_results if r.get('verified')]
valid_success == verified

\* verification ledgers the script may find
ScriptLedgers ==
    {[k \in Entries |-> [case |-> k, verified |-> f[k],
                         error |-> IF f[k] THEN "" ELSE "Regression"]] :
        f \in [Entries -> BOOLEAN]}

\* compute_statistics, lines 448-470: the test applied to the two value
\* lists of a metric ("skipped": the metric is passed over, "none": no
\* test, p_value is "N/A (n < 2)")
StatisticalTest(baseline_vals, valid_vals) ==
    IF baseline_vals = <<>> \/ valid_vals = <<>> THEN "skipped"
    ELSE IF Len(baseline_vals) >= 2 /\ Len(valid_vals) >= 2
    THEN (IF Len(baseline_vals) = Len(valid_vals) THEN "wilcoxon" ELSE "mannwhitneyu")
    ELSE "none"

\* the state in which main enters the RQ1 loop: both ledgers were read; an
\* entry the verification phase verified belongs to a project with a jar
InitScript ==
    /\ refined_results = <<>>
    /\ projects \in [Entries -> {"ok", "nojars", "missing"}]
    /\ refined_file = [k \in Cases |-> InitialContent]
    /\ other_files = AsFound
    /\ pc = "off"
    /\ i = 0
    /\ valid_results = <<>>
    /\ T_valid \in {File(l) : l \in ScriptLedgers}
    /\ \A k \in Entries : T_valid.records[k].verified => projects[k] = "ok"
    /\ validated = {}
    /\ vt = FreshVerify
    /\ rp = FreshRepair
    /\ metrics = <<>>
    /\ final_evaluation = NoFile
    /\ em = FreshMeasure
    /\ scratch = {}
    /\ FnIdle
    /\ s_pc = "loop"
    /\ s_i = 1
    /\ baseline_metrics = <<>>
    /\ valid_metrics = <<>>
    /\ s_final = NoFile
    /\ s_stats = "none"
    /\ s_measured = NotMeasured

\* lines 531-549: find_sut_jar returns None unless the project directory
\* holds a jar; without a jar the entry is skipped
SFindJar ==
    /\ s_pc = "loop"
    /\ s_i <= Len(valid_success)
    /\ IF projects[valid_success[s_i].case] = "ok"
       THEN /\ s_pc' = "baseline"
            /\ UNCHANGED s_i
       ELSE /\ s_i' = s_i + 1
            /\ UNCHANGED s_pc
    /\ UNCHANGED <<baseline_metrics, valid_metrics, s_final, s_stats, s_measured,
                   pipeline_vars, fn_vars>>

\* lines 554-601: the baseline test is measured if its file exists, it
\* compiles (compile_test returns False on a failure, a timeout or any
\* exception) and its class file is found
SBaseline ==
    /\ s_pc = "baseline"
    /\ \/ \E cov_baseline \in CoverageDicts, mut_baseline \in MutationDicts :
            /\ baseline_metrics' =
                   Append(baseline_metrics,
                          Merge(Merge(cov_baseline, mut_baseline),
                                [case |-> valid_success[s_i].case]))
            /\ s_measured' = [side |-> "baseline", cov |-> cov_baseline,
                              mut |-> mut_baseline]
       \/ /\ s_measured' = NotMeasured
          /\ UNCHANGED baseline_metrics
    /\ s_pc' = "refined"
    /\ UNCHANGED <<s_i, valid_metrics, s_final, s_stats, pipeline_vars, fn_vars>>

\* lines 603-642: the same for the refined test
SRefined ==
    /\ s_pc = "refined"
    /\ \/ \E cov_valid \in CoverageDicts, mut_valid \in MutationDicts :
            /\ valid_metrics' =
                   Append(valid_metrics,
                          Merge(Merge(cov_valid, mut_valid),
                                [case |-> valid_success[s_i].case]))
            /\ s_measured' = [side |-> "refined", cov |-> cov_valid,
                              mut |-> mut_valid]
       \/ /\ s_measured' = NotMeasured
          /\ UNCHANGED valid_metrics
    /\ s_pc' = "loop"
    /\ s_i' = s_i + 1
    /\ UNCHANGED <<baseline_metrics, s_final, s_stats, pipeline_vars, fn_vars>>

\* lines 646-652: after the loop, `if baseline_metrics and valid_metrics`
\* compute_statistics compares, per metric, the values of the two lists in
\* list order (the three metrics have lists of the same lengths and get the
\* same test)
SStats ==
    /\ s_pc = "loop"
    /\ s_i > Len(valid_success)
    /\ s_stats' = StatisticalTest(baseline_metrics, valid_metrics)
    /\ s_pc' = "save"
    /\ UNCHANGED <<s_i, baseline_metrics, valid_metrics, s_final, s_measured,
                   pipeline_vars, fn_vars>>

\* lines 748-784: the results are written; valid_metrics is the per-test
\* metrics ledger of the refined tests
SSave ==
    /\ s_pc = "save"
    /\ s_final' = File(valid_metrics)
    /\ s_pc' = "saved"
    /\ UNCHANGED <<s_i, baseline_metrics, valid_metrics, s_stats, s_measured,
                   pipeline_vars, fn_vars>>

NextScript == SFindJar \/ SBaseline \/ SRefined \/ SStats \/ SSave

SpecScript == InitScript /\ [][NextScript]_vars

\* ================================================================= claims
\* the records of a ledger, as a set
Records(ledger) == {ledger[k] : k \in 1..Len(ledger)}

\* _verify_test has returned from its oracle check (both tests were run)
OracleReturned == vt.ret # NoReturn /\ vt.ref_res.kind # "none"

\* C1: once both tests have been run, the verdict of _verify_test is the
\* one the table gives for (orig_passed, ref_passed): (pass, pass) is
\* verified with Preserved (Pass), (fail, fail) is verified with Preserved
\* (Fail), (pass, fail) is not verified with Regression, (fail, pass) is not
\* verified with Fix (Unexpected); nothing else enters the verdict.
C1_OracleTable ==
    OracleReturned =>
        /\ (vt.orig_passed /\ vt.ref_passed) => vt.ret = <<TRUE, "Preserved (Pass)">>
        /\ (~vt.orig_passed /\ ~vt.ref_passed) => vt.ret = <<TRUE, "Preserved (Fail)">>
        /\ (vt.orig_passed /\ ~vt.ref_passed) => vt.ret = <<FALSE, "Regression">>
        /\ (~vt.orig_passed /\ vt.ref_passed) => vt.ret = <<FALSE, "Fix (Unexpected)">>

C1_Witness ==
    /\ OracleReturned
    /\ vt.orig_passed /\ ~vt.ref_passed
    /\ vt.ret = <<FALSE, "Regression">>
    /\ refined_file[vt.case].id > 0

\* C2: once the evaluation has written its results, the metrics ledger
\* holds a record for an entry if and only if the verification ledger holds
\* a record with verified = true for it (SpecScript: main of
\* phase4_evaluation.py).
C2_MetricsIffVerified ==
    s_final.written =>
        \A case \in Entries :
            (\E m \in Records(s_final.records) : m.case = case)
                <=> (\E r \in Records(T_valid.records) : r.case = case /\ r.verified)

\* C3: no test is run in _verify_test unless the refined and the original
\* test have both compiled successfully.
C3_NoRunWithoutCompile ==
    (vt.orig_res.kind # "none" \/ vt.ref_res.kind # "none" \/ pc = "v_run_orig")
        => (vt.res = 0 /\ vt.orig_rc = 0)

\* C4 as claimed: the compile-and-repair part of _verify_test (lines 93, 213
\* and 102) compiles the candidate at most max_attempts times.
C4_AtMostMaxAttemptsCompiles == vt.compiles <= max_attempts

\* C4 as amended: _repair_test sends at most max_attempts requests and
\* compiles at most max_attempts times; with the compilation before it and
\* the one after a successful repair the candidate is compiled at most
\* max_attempts + 2 times.
C4_RepairLoopBounded ==
    /\ rp.requests <= max_attempts
    /\ rp.compiles <= max_attempts
    /\ rp.attempt <= max_attempts
    /\ vt.compiles <= max_attempts + 2

C4_Witness ==
    /\ vt.compiles = max_attempts + 2
    /\ rp.compiles = max_attempts
    /\ rp.requests = max_attempts
    /\ rp.result = "True"

\* C5: no failure while one entry is processed leaves the worklist loop of
\* VerificationPhase.run or EvaluationPhase.run before its ledger is written.
C5_NeverAborts == pc \notin {"v_aborted", "e_aborted"}

\* C6: the verification ledger as written holds exactly one record for
\* every entry of the refinement ledger whose success flag is set.
C6_OneRecordPerAttempted ==
    T_valid.written =>
        \A k \in 1..Len(to_verify) :
            Cardinality({n \in 1..Len(T_valid.records) :
                            T_valid.records[n].case = to_verify[k].case}) = 1

\* the refined test of an entry has compiled (the text on disk is one javac
\* accepted)
Compiled(case) == refined_file[case].ok = "yes"

\* C7 as claimed: every record of the verification ledger belongs to an
\* entry whose test compiled.
C7_RecordOnlyIfCompiled ==
    \A r \in Records(valid_results) : Compiled(r.case)

\* C7 as amended: every record with verified = true belongs to an entry
\* whose refined test compiled (possibly after repair), and the record of an
\* entry whose refined test did not compile has verified = false and a
\* compilation-failure reason.
C7_VerifiedOnlyIfCompiled ==
    \A r \in Records(valid_results) :
        /\ r.verified => Compiled(r.case)
        /\ ~Compiled(r.case) =>
              /\ ~r.verified
              /\ r.error \in {"Compilation failed (Repair failed)",
                              "Compilation failed after repair"}

C7_Witness ==
    /\ \E r \in Records(valid_results) :
          ~Compiled(r.case) /\ r.error = "Compilation failed (Repair failed)"
    /\ \E r \in Records(valid_results) : r.verified /\ refined_file[r.case].id > 0

\* C8: a run is classified as pass only if the runner reported zero
\* failures and the process exited with 0 (original and refined run alike).
C8_PassOnlyIfZeroFailures ==
    /\ vt.orig_passed => (vt.orig_res.failures = 0 /\ vt.orig_res.returncode = 0)
    /\ vt.ref_passed => (vt.ref_res.failures = 0 /\ vt.ref_res.returncode = 0)

\* C9: when the test compiled, the execution-data file existed and the XML
\* report was produced and parsed, the dict _measure_metrics returns carries
\* the line and branch coverage _parse_jacoco computed.
C9_MetricsCarryCoverage ==
    (em.returned /\ em.exec_exists /\ em.xml_exists /\ em.cov.keys) =>
        /\ PctEq(em.m.line_coverage, em.cov.line_coverage)
        /\ PctEq(em.m.branch_coverage, em.cov.branch_coverage)

\* the target class name with slashes
Slashed(name) == [k \in 1..Len(name) |-> IF name[k] = "." THEN "/" ELSE name[k]]

\* the <class> elements of the report that are the target class or one of
\* its inner classes
TargetElements ==
    {k \in 1..Len(report.classes) :
        LET name == report.classes[k].name
            path == Slashed(target_class)
        IN \/ name = path
           \/ /\ Len(name) > Len(path)
              /\ \A n \in 1..Len(path) : name[n] = path[n]
              /\ name[Len(path) + 1] = "$"}

\* covered (field = 1) or missed (field = 2) of a counter kind, added up
\* over the counter children of a set of <class> elements
RECURSIVE Total(_, _, _)
Total(elements, kind, field) ==
    IF elements = {} THEN 0
    ELSE LET k == CHOOSE x \in elements : TRUE
             cs == report.classes[k].counters
             own == IF cs # <<>> /\ cs[1].type = kind
                    THEN (IF field = 1 THEN cs[1].covered ELSE cs[1].missed)
                    ELSE 0
         IN own + Total(elements \ {k}, kind, field)

\* value is covered / (covered + missed) * 100 of a counter kind over the
\* target elements, 0 when covered + missed = 0
IsPercentageOf(value, kind) ==
    LET covered == Total(TargetElements, kind, 1)
        missed == Total(TargetElements, kind, 2)
    IN IF covered + missed = 0
       THEN value.num = 0
       ELSE value.num * (covered + missed) = covered * 100 * value.den

\* C10: for a well-formed report _parse_jacoco returns, per counter kind,
\* covered / (covered + missed) * 100 added up over exactly the target
\* class and its inner classes, 0 for a zero denominator (line_coverage is
\* the LINE percentage when that is positive and the INSTRUCTION percentage
\* otherwise); LINE covered 8, missed 2 gives 80; no matching class gives 0;
\* a malformed report gives the empty dict.
C10_ParseJacoco ==
    cpc = "parsed" =>
        IF ~report.wellformed THEN cov = EmptyCov
        ELSE /\ cov.keys
             /\ IsPercentageOf(cov.branch_coverage, "BRANCH")
             /\ IsPercentageOf(cov.instruction_coverage, "INSTRUCTION")
             /\ IsPercentageOf(cov.method_coverage, "METHOD")
             /\ \/ /\ cov.line_coverage.num > 0
                   /\ IsPercentageOf(cov.line_coverage, "LINE")
                \/ /\ IsPercentageOf(PctZero, "LINE")
                   /\ IsPercentageOf(cov.line_coverage, "INSTRUCTION")
             /\ (Total(TargetElements, "LINE", 1) = 8 /\ Total(TargetElements, "LINE", 2) = 2)
                    => PctEq(cov.line_coverage, Pct(80, 1))
             /\ TargetElements = {} => PctEq(cov.line_coverage, PctZero)

C10_Witness ==
    /\ cpc = "parsed"
    /\ report.wellformed
    /\ Len(report.classes) = 2
    /\ report.classes[1] = ClassNode(<<"a", "/", "B", "x">>, <<Counter("LINE", 0, 2)>>)
    /\ report.classes[2] = ClassNode(<<"a", "/", "B", "$", "1">>, <<Counter("LINE", 8, 2)>>)
    /\ target_class = <<"a", ".", "B">>
    /\ PctEq(cov.line_coverage, Pct(80, 1))

\* C11: for a well-formed report the line_coverage _parse_jacoco returns is
\* the LINE percentage of the target class when that percentage is greater
\* than 0 and the INSTRUCTION percentage when the LINE percentage is 0; it
\* is 0 only if both percentages are 0.
C11_LineElseInstruction ==
    (cpc = "parsed" /\ report.wellformed) =>
        LET line_covered == Total(TargetElements, "LINE", 1)
            instr_covered == Total(TargetElements, "INSTRUCTION", 1)
        IN /\ line_covered > 0 => IsPercentageOf(cov.line_coverage, "LINE")
           /\ line_covered = 0 => IsPercentageOf(cov.line_coverage, "INSTRUCTION")
           /\ cov.line_coverage.num = 0 => (line_covered = 0 /\ instr_covered = 0)

C11_Witness ==
    /\ cpc = "parsed"
    /\ report.wellformed
    /\ Total(TargetElements, "LINE", 2) > 0
    /\ Total(TargetElements, "LINE", 1) = 0
    /\ Total(TargetElements, "INSTRUCTION", 1) = 8
    /\ PctEq(cov.line_coverage, Pct(80, 1))

\* the counter kind _parse_jacoco took line_coverage from for a report
KindUsed(r, t) ==
    LET acc == ScanClasses(r.classes, Replace(t, ".", "/"),
                           [found |-> FALSE, counters |-> InitialCounters])
    IN IF PctPositive(calc(acc.counters["LINE"])) THEN "LINE" ELSE "INSTRUCTION"

\* two returned dicts hold the same values under the same keys
SameOutput(a, b) ==
    /\ a.keys = b.keys
    /\ PctEq(a.line_coverage, b.line_coverage)
    /\ PctEq(a.branch_coverage, b.branch_coverage)
    /\ PctEq(a.instruction_coverage, b.instruction_coverage)
    /\ PctEq(a.method_coverage, b.method_coverage)

\* reports of one <class> element, against which a result is compared
OneClassReports == {Report(TRUE, <<n>>) : n \in ClassNodes}

\* C12: the dict _parse_jacoco returns tells which counter kind its
\* line_coverage was taken from: no report whose line_coverage came from
\* the other kind yields the same dict.
C12_KindRecorded ==
    (cpc = "parsed" /\ report.wellformed) =>
        \A r \in OneClassReports :
            SameOutput(_parse_jacoco(r, target_class), cov)
                => KindUsed(r, target_class) = KindUsed(report, target_class)

\* KILLED / all mutation elements * 100 of the report, 0 for no elements
StandardScore ==
    LET killed == Cardinality({k \in 1..Len(pit_xml.mutations) :
                                   pit_xml.mutations[k] = "KILLED"})
    IN IF Len(pit_xml.mutations) = 0 THEN PctZero
       ELSE Pct(killed * 100, Len(pit_xml.mutations))

\* KILLED / mutation elements whose status is not NO_COVERAGE * 100
TestableScore ==
    LET killed == Cardinality({k \in 1..Len(pit_xml.mutations) :
                                   pit_xml.mutations[k] = "KILLED"})
        testable == Cardinality({k \in 1..Len(pit_xml.mutations) :
                                     pit_xml.mutations[k] # "NO_COVERAGE"})
    IN IF testable = 0 THEN PctZero ELSE Pct(killed * 100, testable)

\* a value is p to two decimal places
IsRounded(value, p) ==
    /\ value.den = 100
    /\ 2 * (value.num * p.den - p.num * 100) <= p.den
    /\ 2 * (p.num * 100 - value.num * p.den) <= p.den

\* C13: the mutation score both parsers compute from a well-formed report
\* is KILLED / all mutation elements * 100 (the script's to two decimal
\* places), and 0 for a report without mutation elements.
C13_ScoreIsKilledOverTotal ==
    (mpc = "measured" /\ pit_xml.wellformed) =>
        /\ PctEq(score, StandardScore)
        /\ IsRounded(mut.mutation_score, StandardScore)
        /\ Len(pit_xml.mutations) = 0 =>
               (score.num = 0 /\ mut.mutation_score.num = 0)

\* the keys of a returned dict that hold a percentage
PercentageKeys == {"mutation_score", "line_coverage"}

\* C14: the dict measured from one well-formed report holds the standard
\* score and the testable score under two different keys; for seven
\* KILLED, two SURVIVED and one NO_COVERAGE they are 70.0 and 77.78.
C14_BothScores ==
    (mpc = "measured" /\ pit_xml.wellformed) =>
        /\ \E k1, k2 \in PercentageKeys \cap DOMAIN mut :
              /\ k1 # k2
              /\ IsRounded(mut[k1], StandardScore)
              /\ IsRounded(mut[k2], TestableScore)
        /\ pit_xml.mutations = ExampleMutations =>
              \E k1, k2 \in PercentageKeys \cap DOMAIN mut :
                  /\ PctEq(mut[k1], Pct(70, 1))
                  /\ PctEq(mut[k2], Pct(7778, 100))

\* the number of (baseline, refined) pairs, over all rows of both columns,
\* in which the refined value is larger / the two are equal
RefinedLarger ==
    Cardinality({p \in (1..Len(df_baseline)) \X (1..Len(df_valid)) :
                     df_valid[p[2]] > df_baseline[p[1]]})

RefinedEqual ==
    Cardinality({p \in (1..Len(df_baseline)) \X (1..Len(df_valid)) :
                     df_valid[p[2]] = df_baseline[p[1]]})

\* C15: the saved A12 is the probability that a refined value exceeds a
\* baseline value, ties counting one half; when every refined value is
\* larger than its paired baseline value it is greater than 0.5.
C15_A12RefinedOverBaseline ==
    apc = "saved" =>
        LET a12 == stats_results[1].effect_size_a12
            pairs == Len(df_baseline) * Len(df_valid)
        IN /\ a12.num * 2 * pairs = (2 * RefinedLarger + RefinedEqual) * a12.den
           /\ (\A k \in 1..Len(df_baseline) : df_valid[k] > df_baseline[k])
                  => 2 * a12.num > a12.den

\* the i-th baseline record and the i-th refined record belong to the same
\* ledger entry
PairingPreserved ==
    /\ Len(baseline_metrics) = Len(valid_metrics)
    /\ \A k \in 1..Len(baseline_metrics) :
           baseline_metrics[k].case = valid_metrics[k].case

\* C16: on the lists the measurement loop built, compute_statistics applies
\* the paired Wilcoxon test only when the two lists have the same length
\* and the i-th records of both belong to the same entry, and the unpaired
\* rank-sum test in every other case in which a test is applied (both lists
\* have two values or more).
C16_WilcoxonOnlyIfPaired ==
    (s_pc \in {"save", "saved"} /\ s_stats \in {"wilcoxon", "mannwhitneyu"}) =>
        /\ s_stats = "wilcoxon" => PairingPreserved
        /\ ~PairingPreserved => s_stats = "mannwhitneyu"

\* C17: when a tool of the measurement left no machine-readable report
\* (no execution data, no jacoco.xml, no mutations.xml), the record appended
\* for the TestCase has 0 for the affected metric and carries an error tag.
C17_MissingReportTagged ==
    (em.returned /\ em.m.compilation_rate = 1) =>
        LET record == metrics[Len(metrics)]
        IN /\ (~em.exec_exists \/ ~em.xml_exists) =>
                  (record.line_coverage.num = 0 /\ "error" \in DOMAIN record)
           /\ ~em.pit_xml_exists =>
                  (record.mutation_score.num = 0 /\ "error" \in DOMAIN record)

\* C18: once VerificationPhase.run has finished, the refined file of an
\* entry is in the validated tree if and only if the entry's record in the
\* verification ledger has verified = true; at no time is the file of an
\* entry without such a record there.
C18_CopiedIffVerified ==
    /\ \A case \in validated :
           \E r \in Records(valid_results) : r.case = case /\ r.verified
    /\ (T_valid.written /\ pc # "v_copy") =>
           \A case \in Cases :
               case \in validated
                   <=> (\E r \in Records(T_valid.records) : r.case = case /\ r.verified)

C18_Witness ==
    /\ pc = "v_done"
    /\ validated # {}
    /\ \E r \in Records(T_valid.records) : ~r.verified /\ r.case \notin validated

\* the positions at which no TestCase is being processed: between two
\* iterations of a phase's loop, and after the loop or the phase has ended
BetweenTestCases ==
    pc \in {"v_loop", "v_save", "v_copy", "v_done", "v_aborted",
            "e_loop", "e_save", "e_done", "e_aborted"}

\* the entry whose verification or measurement is under way
InProcess == IF pc \in {"e_javac", "e_run", "e_report", "e_pit"} THEN em.case ELSE vt.case

\* C19: a scratch directory created for the verification, the repair
\* compilation or the measurement of a TestCase does not exist once the
\* processing of that TestCase has ended, however it ended (return, early
\* return, timeout); while a TestCase is processed no scratch directory of
\* another TestCase exists.
C19_ScratchRemoved ==
    /\ BetweenTestCases => scratch = {}
    /\ ~BetweenTestCases => \A dir \in scratch : dir.case = InProcess

C19_Witness ==
    /\ pc = "v_aborted"
    /\ i = 2
    /\ rp.compiles > 0
    /\ rp.result = "none"
    /\ scratch = {}

\* the candidate source files of the class, in search order
Candidate(k) ==
    LET dotted == sut_class
        path == [n \in 1..Len(dotted) |-> dotted[n]]
        packages == IF Len(path) = 1 THEN <<>> ELSE <<path[1]>>
        file == <<"B.java">>
    IN (CASE k = 1 -> <<"src", "main", "java">>
          [] k = 2 -> <<"src">>
          [] k = 3 -> <<"source">>) \o packages \o file

\* the files a recursive search for the simple class name finds
ByName == {f \in project_dir.files : f[Len(f)] = "B.java"}

\* the binary artifact of the project
Artifact == <<"tullibee.jar">>

\* C20: find_sut_file returns the first existing one of the candidates
\* src/main/java/<path>, src/<path>, source/<path>; if none exists a file
\* found by the recursive search for the simple class name; if there is
\* none the project's binary artifact; and only if that does not exist
\* either the not-found result.
C20_SearchOrder ==
    fpc \in {"gspo_utg", "pfc3"} =>
        IF \E k \in 1..3 : Candidate(k) \in project_dir.files
        THEN \E k \in 1..3 :
                 /\ sut_path = Candidate(k)
                 /\ Candidate(k) \in project_dir.files
                 /\ \A j \in 1..(k - 1) : Candidate(j) \notin project_dir.files
        ELSE IF ByName # {} THEN sut_path \in ByName
        ELSE IF Artifact \in project_dir.files THEN sut_path = Artifact
        ELSE sut_path = NotFound

\* C21: no exception leaves extract_context or one of its two call sites:
\* extract_context returns a string for every file, and refine_test and
\* _repair_test go on to their adapter request whatever the extraction did.
C21_ExtractionNeverHalts ==
    /\ xpc \notin {"raised", "refine_raised"}
    /\ xpc = "returned" => context # <<>>

\* a percentage between 0 and 100 inclusive
InRange(p) == p.den > 0 /\ p.num >= 0 /\ p.num <= 100 * p.den

\* the keys of a MetricsRecord that hold a coverage percentage or a score
RangedKeys ==
    {"line_coverage", "branch_coverage", "instruction_coverage",
     "method_coverage", "mutation_score"}

\* C22: every record of the written metrics ledger has compilation_rate 0
\* or 1 and holds line_coverage, branch_coverage, instruction_coverage,
\* method_coverage and mutation_score, each between 0 and 100.
C22_RecordInRange ==
    \A r \in Records(final_evaluation.records) :
        /\ r.compilation_rate \in {0, 1}
        /\ \A key \in RangedKeys : key \in DOMAIN r /\ InRange(r[key])

\* C23: the run that determines orig_passed finds in out_dir the class
\* compiled from the original file in this call, and the run that
\* determines ref_passed finds the class compiled from the refined file.
C23_RunsOwnClass ==
    /\ vt.orig_res.kind # "none" => vt.orig_class = "original"
    /\ vt.ref_res.kind # "none" => vt.ref_class = "refined"

\* one step of _verify_test from position from to position to
VStep(from, to) == pc = from /\ pc' = to

FailedRequest ==
    /\ pc = "r_generate"
    /\ rp'.requests = rp.requests + 1
    /\ pc' # "r_javac"

\* C25: a failed adapter request uses up one attempt of _repair_test:
\* nothing is compiled, the file, code and error_log stay as they are, and
\* the loop goes to the next attempt or, after attempt max_attempts,
\* returns False; when every request has failed, False is returned after
\* exactly max_attempts requests with the file as it was read.
C25_FailedRequestUsesAttempt ==
    [][FailedRequest =>
          /\ refined_file' = refined_file
          /\ rp'.code = rp.code /\ rp'.error_log = rp.error_log
          /\ rp'.compiles = rp.compiles
          /\ IF rp.attempt < max_attempts
             THEN rp'.attempt = rp.attempt + 1 /\ pc' = "r_generate"
             ELSE /\ rp'.result = "False"
                  /\ vt'.ret = <<FALSE, "Compilation failed (Repair failed)">>
                  /\ rp'.compiles = 0 =>
                         /\ rp'.requests = max_attempts
                         /\ refined_file'[vt.case] = rp'.code]_vars

C25_Witness ==
    /\ rp.result = "False"
    /\ rp.compiles = 0 /\ rp.requests = max_attempts
    /\ refined_file[vt.case] = rp.code
    /\ vt.ret = <<FALSE, "Compilation failed (Repair failed)">>

C27_OnlyRefinedFileWritten ==
    [][/\ other_files' = other_files
       /\ \A case \in Cases :
              refined_file'[case].id # refined_file[case].id =>
                  /\ pc = "r_generate"
                  /\ case = vt.case
                  /\ vt.res # 0 /\ vt.compiles >= 1]_vars

C27_Witness ==
    /\ vt.ret # NoReturn
    /\ refined_file[vt.case].id > 0
    /\ other_files = AsFound
    /\ \E case \in Cases : case # vt.case /\ refined_file[case].id = 0

\* the record main appended for the test measured last
LastMerged ==
    IF s_measured.side = "baseline"
    THEN baseline_metrics[Len(baseline_metrics)]
    ELSE valid_metrics[Len(valid_metrics)]

\* C28: the record main builds from the coverage dict and the mutation
\* dict of a test holds the line_coverage that measure_coverage_jacoco
\* returned, and holds an error tag whenever the coverage dict has one.
C28_MergeKeepsCoverage ==
    s_measured.side # "none" =>
        /\ LastMerged.line_coverage = s_measured.cov.line_coverage
        /\ "error" \in DOMAIN s_measured.cov => "error" \in DOMAIN LastMerged

\* the ids of the run_phase calls of this invocation, in call order
ExecutedIds == [k \in DOMAIN executed |-> executed[k].id]

\* the phases a command line selects once start_phase is known
Selected ==
    {k \in PhaseIds : k >= start_phase /\ (args.phase = 0 \/ k = args.phase)}

\* C29: run_full_pipeline runs the selected phases one at a time in
\* ascending id; a run_phase call succeeds exactly if the process exited
\* with 0 and the phase's marker exists afterwards; no phase is run after
\* an unsuccessful one, and the pipeline then returns 1; it returns 0 only
\* after every selected phase has run successfully.
C29_PhasesInOrderUntilFailure ==
    /\ \A a, b \in DOMAIN executed : a < b => executed[a].id < executed[b].id
    /\ \A a \in DOMAIN executed :
          /\ executed[a].id \in Selected
          /\ executed[a].success <=>
                 (~executed[a].end.raised /\ executed[a].end.returncode = 0
                  /\ executed[a].marker)
          /\ a < Len(executed) => executed[a].success
    /\ rpc = "running" =>
          /\ \A a \in DOMAIN executed : executed[a].success /\ executed[a].id < phase
    /\ (rpc = "loop" /\ executed # <<>>) => executed[Len(executed)].success
    /\ (rpc = "exited" /\ \E a \in DOMAIN executed : ~executed[a].success) =>
          exit_status = 1
    /\ (rpc = "exited" /\ exit_status = 0) =>
          /\ {executed[a].id : a \in DOMAIN executed} = Selected
          /\ \A a \in DOMAIN executed : executed[a].success

C29_Witness ==
    /\ rpc = "exited" /\ exit_status = 1
    /\ args = [resume |-> FALSE, phase |-> 0]
    /\ Len(executed) = 2
    /\ executed[1].success
    /\ executed[2].end.returncode = 0 /\ ~executed[2].marker
    /\ markers = {1}

\* C30: with --resume (and no --phase) get_last_completed_phase is 0 when
\* no marker exists, so the pipeline starts at phase 1; every phase passed
\* over as completed has its marker; and a pipeline that returns 0 has run
\* exactly the phases after the last completed one, in ascending order.
C30_ResumeSkipsOnlyCompleted ==
    (args.resume /\ args.phase = 0 /\ rpc \in {"loop", "running", "exited"}
       /\ start_phase # 0) =>
        /\ skipped \subseteq markers
        /\ (skipped = {} /\ executed = <<>> /\ markers = {}) => start_phase = 1
        /\ (rpc = "exited" /\ exit_status = 0) =>
               \A k \in PhaseIds : k \notin skipped <=>
                   \E a \in DOMAIN executed : executed[a].id = k

====
